---- MODULE Spec2Model ----
(***************************************************************************)
(* TMU Schedule Exporter (src/src/index.ts): the interceptor that captures *)
(* the auth headers and the WeekSchedule response, the schedule service    *)
(* that fans out one fetch per week of the current term, the mapper, the   *)
(* ICS serializer and the export flow behind the injected button.          *)
(*                                                                         *)
(* The page is single-threaded: every action below is one task (a host     *)
(* call, a DOM event, a network completion) or the continuation of the     *)
(* export run after its await.                                             *)
(***************************************************************************)
EXTENDS Integers, Sequences, FiniteSets, TLC

VARIABLES
    apiKey,         \* TMUInterceptorContext.apiKey
    authorization,  \* TMUInterceptorContext.authorization
    cachedWeeks,    \* TMUInterceptorContext.cachedWeeks
    firstSeen,      \* history: value of the first header-set call per secret
    xhr,            \* the host page's XMLHttpRequest object
    hostCall,       \* what the host observed from its last intercepted call
    console,        \* last console output of the interceptor's load listener
    btn,            \* the injected export button
    pc,             \* position of exportCurrentTerm
    reqs,           \* the fetches launched by loadCurrentTermSchedules
    run             \* effects and result of the current / last export run

vars == <<apiKey, authorization, cachedWeeks, firstSeen, xhr, hostCall,
          console, btn, pc, reqs, run>>

obsVars == <<apiKey, authorization, cachedWeeks, firstSeen, xhr, hostCall, console>>
runVars == <<btn, pc, reqs, run>>

(***************************************************************************)
(* JavaScript values                                                       *)
(***************************************************************************)
NULL == "<null>"
UNDEF == "<undefined>"

\* !s for a string-or-null field: null and "" are falsy.
Falsy(s) == s = NULL \/ s = ""

(***************************************************************************)
(* Bounds and input sets                                                   *)
(***************************************************************************)
\* load listeners the interceptor may stack on one XMLHttpRequest object
MaxListeners == 2

HeaderNames == {"ApiKey", "authorization", "accept"}
HeaderValues == {"", "k1", "k2"}

\* longest WeekSchedule array the host page receives
MaxWeeks == 2

Week(t, y, n) == [TermID |-> t, YearStudy |-> y, Week |-> n]
WeekItems == {Week(1, 2025, 1), Week(1, 2025, 2), Week(2, 2025, 1), Week(1, 2026, 1)}

SeqsUpTo(S, n) == UNION {[1..k -> S] : k \in 0..n}
WeekLists == SeqsUpTo(WeekItems, MaxWeeks)

\* JSON values a WeekSchedule response body can parse to; "invalid" does not parse.
JsonArray(items) == [kind |-> "array", items |-> items]
JsonNull == [kind |-> "null", items |-> <<>>]
JsonObject == [kind |-> "object", items |-> <<>>]
JsonInvalid == [kind |-> "invalid", items |-> <<>>]
WeekBodies == {JsonInvalid, JsonNull, JsonObject} \cup {JsonArray(l) : l \in WeekLists}

\* URLs the host page opens: strings, or URL objects (open accepts string | URL).
StringUrl(href) == [type |-> "string", href |-> href]
ObjectUrl(href) == [type |-> "URL", href |-> href]
UndefinedUrl == [type |-> "undefined", href |-> ""]
Hrefs == {"/api/student/WeekSchedule", "/api/student/DrawingSchedules"}
Urls == {StringUrl(h) : h \in Hrefs} \cup {ObjectUrl("/api/student/WeekSchedule")}

(***************************************************************************)
(* Interceptor: TMUInterceptorContext                                      *)
(***************************************************************************)
\* String.prototype.toLowerCase on the header names of HeaderNames
toLowerCase(key) ==
    CASE key = "ApiKey" -> "apikey"
      [] key = "AUTHORIZATION" -> "authorization"
      [] OTHER -> key

\* String.prototype.includes("/WeekSchedule") on the hrefs of Hrefs
includesWeekSchedule(href) == href = "/api/student/WeekSchedule"

NullHeaders == [null |-> TRUE]

\* a getAuthHeaders that is content with one secret
getAuthHeadersEitherSecret ==
    IF Falsy(apiKey) /\ Falsy(authorization)
    THEN NullHeaders
    ELSE [apikey |-> apiKey, authorization |-> authorization, clientid |-> "tmu"]

\* getAuthHeaders(): null unless both secrets are truthy
getAuthHeaders ==
    IF Falsy(apiKey) \/ Falsy(authorization)
    THEN NullHeaders
    ELSE [apikey |-> apiKey, authorization |-> authorization, clientid |-> "tmu"]

\* getWeeks()
getWeeks == cachedWeeks

NoCall == [op |-> "none", args |-> <<>>, origCalls |-> 0, origArgs |-> <<>>, threw |-> FALSE]

\* `new XMLHttpRequest()` by the host page: nothing recorded, no listener.
FreshXhr == [tmu_url |-> UndefinedUrl, nativeUrl |-> UndefinedUrl, listeners |-> 0, sent |-> FALSE]

\* a setRequestHeader that overwrites the API key on every matching call
CapturedApiKeyLastWins(key, value) ==
    IF toLowerCase(key) = "apikey" THEN value ELSE apiKey

\* The overridden setRequestHeader: capture a secret not captured yet, then
\* call the original with the same arguments.
CapturedApiKey(key, value) ==
    IF Falsy(apiKey) /\ toLowerCase(key) = "apikey" THEN value ELSE apiKey

CapturedAuthorization(key, value) ==
    IF Falsy(authorization) /\ toLowerCase(key) = "authorization" THEN value ELSE authorization

\* history, per secret, of the header-set calls whose lower-cased name is the
\* secret's: the value of the first one, and of the first one with a non-empty value
Secrets == {"apikey", "authorization"}
NothingSeen == [s \in Secrets |-> [any |-> NULL, nonEmpty |-> NULL]]
FirstSeenAfter(key, value) ==
    [s \in Secrets |->
        IF toLowerCase(key) # s THEN firstSeen[s]
        ELSE [any |-> IF firstSeen[s].any = NULL THEN value ELSE firstSeen[s].any,
              nonEmpty |-> IF firstSeen[s].nonEmpty = NULL /\ value # ""
                           THEN value ELSE firstSeen[s].nonEmpty]]

(***************************************************************************)
(* Raw schedule items and fetch outcomes                                   *)
(***************************************************************************)
\* A text is a sequence of characters (one-character strings).
Missing == <<UNDEF>>   \* a field the JSON object does not have

RawItem(date, period, room, title) ==
    [Date |-> date, PeriodName |-> period, RoomID |-> room, CaHoc |-> <<"(", "7", ")">>,
     ScheduleStudyUnitID |-> <<"U">>, NumberOfPeriods |-> <<"3">>,
     ProfessorName |-> <<"G">>, CurriculumName |-> title]

ItemA == RawItem(<<"2","5","/","0","2","/","2","0","2","6">>, <<"1","-","3">>,
                 <<"P","1","<","/","b","r",">","x">>, <<"A">>)
ItemB == RawItem(<<"2","6","/","0","2","/","2","0","2","6">>, <<"4","-","5">>,
                 <<" ","Q"," ">>, <<"B">>)
ItemBadDate == RawItem(<<"0","0","/","0","2","/","2","0","2","6">>, <<"1","-","3">>,
                       <<"P">>, <<"C">>)
ItemNoDate == RawItem(Missing, <<"1","-","3">>, <<"P">>, <<"D">>)
RawItems == {ItemA, ItemB, ItemBadDate, ItemNoDate}
\* the ResultDataSchedule arrays of the responses
RecordLists == {<<>>, <<ItemB, ItemA>>} \cup {<<r>> : r \in RawItems}

\* How one getJson call of the schedule service can end.
Pending == [kind |-> "pending", records |-> <<>>]
NetworkError == [kind |-> "network-error", records |-> <<>>]   \* fetch rejects
HttpError == [kind |-> "http-error", records |-> <<>>]         \* !res.ok
NullData == [kind |-> "null-data", records |-> <<>>]           \* body is `null`
NoField == [kind |-> "no-field", records |-> <<>>]             \* no ResultDataSchedule
Records(l) == [kind |-> "records", records |-> l]
Failures == {NetworkError, HttpError, NullData}
Outcomes == Failures \cup {NoField} \cup {Records(l) : l \in RecordLists}

(***************************************************************************)
(* Texts: String.prototype.split / trim, Number(), String(n)               *)
(***************************************************************************)
Digits == <<"0", "1", "2", "3", "4", "5", "6", "7", "8", "9">>
IsDigit(c) == \E i \in 1..10 : Digits[i] = c
DigitValue(c) == (CHOOSE i \in 1..10 : Digits[i] = c) - 1
IsSpace(c) == c \in {" ", "\n", "\t"}

\* does `sep` occur in `s` at position i
OccursAt(s, sep, i) ==
    /\ i + Len(sep) - 1 <= Len(s)
    /\ \A k \in 1..Len(sep) : s[i + k - 1] = sep[k]

\* first position of `sep` in `s` at or after `from`, 0 when there is none
IndexOf(s, sep, from) ==
    IF \E i \in from..Len(s) : OccursAt(s, sep, i)
    THEN CHOOSE i \in from..Len(s) :
            /\ OccursAt(s, sep, i)
            /\ \A j \in from..(i - 1) : ~OccursAt(s, sep, j)
    ELSE 0

\* s.split(sep) for a non-empty separator
RECURSIVE split(_, _)
split(s, sep) ==
    LET i == IndexOf(s, sep, 1) IN
    IF i = 0 THEN <<s>>
    ELSE <<SubSeq(s, 1, i - 1)>> \o split(SubSeq(s, i + Len(sep), Len(s)), sep)

\* s.trim()
RECURSIVE trim(_)
trim(s) ==
    IF s = <<>> THEN s
    ELSE IF IsSpace(s[1]) THEN trim(Tail(s))
    ELSE IF IsSpace(s[Len(s)]) THEN trim(SubSeq(s, 1, Len(s) - 1))
    ELSE s

RECURSIVE DecimalValue(_)
DecimalValue(s) ==
    IF s = <<>> THEN 0 ELSE 10 * DecimalValue(SubSeq(s, 1, Len(s) - 1)) + DigitValue(s[Len(s)])

\* Number(s) on texts made of digits, spaces, a leading minus sign and other
\* characters: "" and blanks are 0, a decimal literal is its value, the rest NaN.
NaN == [kind |-> "NaN", n |-> 0]
Undefined == [kind |-> "undefined", n |-> 0]
Num(n) == [kind |-> "number", n |-> n]
Number(s) ==
    LET t == trim(s) IN
    IF t = <<>> THEN Num(0)
    ELSE IF \A i \in 1..Len(t) : IsDigit(t[i]) THEN Num(DecimalValue(t))
    ELSE IF t[1] = "-" /\ Len(t) > 1 /\ \A i \in 2..Len(t) : IsDigit(t[i])
         THEN Num(0 - DecimalValue(Tail(t)))
    ELSE NaN

\* !v for a number: 0, NaN and undefined are falsy
FalsyNumber(v) == v.kind # "number" \/ v.n = 0

\* parts[i] of an array of numbers, undefined past its end
At(parts, i) == IF i <= Len(parts) THEN parts[i] ELSE Undefined

\* String(n) for an integer
RECURSIVE NatToText(_)
NatToText(n) == IF n < 10 THEN <<Digits[n + 1]>> ELSE NatToText(n \div 10) \o <<Digits[(n % 10) + 1]>>
ToText(n) == IF n < 0 THEN <<"-">> \o NatToText(0 - n) ELSE NatToText(n)

\* a pad2 that does not pad
pad2Unpadded(n) == ToText(n)

\* DateUtils.pad2
pad2(n) == LET t == ToText(n) IN IF Len(t) < 2 THEN <<"0">> \o t ELSE t

\* DateUtils.toICSDate
toICSDate(y, m, d, h, min) ==
    ToText(y) \o pad2(m) \o pad2(d) \o <<"T">> \o pad2(h) \o pad2(min) \o <<"0", "0">>

(***************************************************************************)
(* Mapper: TMUScheduleToEventMapper                                        *)
(***************************************************************************)
Period(sh, sm, eh, em) == [sh |-> sh, sm |-> sm, eh |-> eh, em |-> em]
PERIOD_TIME ==
    <<Period(6, 30, 7, 20), Period(7, 25, 8, 15), Period(8, 20, 9, 10),
      Period(9, 20, 10, 10), Period(10, 15, 11, 5), Period(11, 10, 12, 0),
      Period(12, 30, 13, 20), Period(13, 25, 14, 15), Period(14, 20, 15, 10),
      Period(15, 20, 16, 10), Period(16, 15, 17, 5), Period(17, 10, 18, 0)>>

\* PERIOD_TIME[p] is defined
HasPeriod(p) == p.kind = "number" /\ p.n \in DOMAIN PERIOD_TIME

\* cleanRoom: the part before the first "</br>", trimmed
BreakMarker == <<"<", "/", "b", "r", ">">>
cleanRoom(roomId) == trim(split(roomId, BreakMarker)[1])

\* item.CaHoc.match(/\((.*?)\)/)?.[1] ?? "": the text between the first "(" and
\* the next ")", "" when there is no such pair
startTimeOf(caHoc) ==
    LET lp == IndexOf(caHoc, <<"(">>, 1)
        rp == IF lp = 0 THEN 0 ELSE IndexOf(caHoc, <<")">>, lp + 1)
    IN  IF rp = 0 THEN <<>> ELSE SubSeq(caHoc, lp + 1, rp - 1)

\* IdFactory.uid: the prefix and a random UUID (or time and random number)
uid(prefix, uuid) == prefix \o <<"-">> \o uuid

Thrown == [kind |-> "throw"]
NullEvent == [kind |-> "null"]
Event(e) == [kind |-> "event", event |-> e]

\* toEvent: null for a record it cannot map; a TypeError when a field that is
\* split or matched is not there. `uuid` is what the UUID generator returns.
toEvent(item, uuid) ==
    IF item.Date = Missing THEN Thrown
    ELSE
    LET date == [i \in 1..Len(split(item.Date, <<"/">>)) |-> Number(split(item.Date, <<"/">>)[i])]
        d == At(date, 1)
        m == At(date, 2)
        y == At(date, 3)
    IN
    IF FalsyNumber(d) \/ FalsyNumber(m) \/ FalsyNumber(y) THEN NullEvent
    ELSE IF item.PeriodName = Missing THEN Thrown
    ELSE
    LET periods == [i \in 1..Len(split(item.PeriodName, <<"-">>)) |->
                        Number(split(item.PeriodName, <<"-">>)[i])]
        sp == At(periods, 1)
        ep == At(periods, 2)
    IN
    IF ~HasPeriod(sp) \/ ~HasPeriod(ep) THEN NullEvent
    ELSE IF item.RoomID = Missing \/ item.CaHoc = Missing THEN Thrown
    ELSE
    LET st == PERIOD_TIME[sp.n]
        et == PERIOD_TIME[ep.n]
        room == cleanRoom(item.RoomID)
        startTime == startTimeOf(item.CaHoc)
        description ==
            <<"L", "H", "P", ":", " ">> \o item.ScheduleStudyUnitID \o <<"\n">>
            \o <<"S", "o", " ", "t", "i", "e", "t", ":", " ">> \o item.NumberOfPeriods \o <<"\n">>
            \o <<"T", "i", "e", "t", ":", " ">> \o item.PeriodName \o <<"\n">>
            \o <<"G", "i", "o", ":", " ">> \o startTime \o <<"\n">>
            \o <<"G", "V", ":", " ">> \o item.ProfessorName
    IN  Event([uid |-> uid(<<"t", "m", "u">>, uuid),
               title |-> item.CurriculumName \o <<" ", "-", " ">> \o room,
               location |-> room,
               description |-> description,
               start |-> toICSDate(y.n, m.n, d.n, st.sh, st.sm),
               end |-> toICSDate(y.n, m.n, d.n, et.eh, et.em)])

\* map: toEvent on every item, nulls filtered out; throws when a toEvent throws.
\* uuids[i] is the UUID drawn for item i.
IsEvent(r) == r.kind = "event"
EventOf(r) == r.event
mapResults(items, uuids) == [i \in 1..Len(items) |-> toEvent(items[i], uuids[i])]
mapThrows(items, uuids) == \E i \in 1..Len(items) : mapResults(items, uuids)[i] = Thrown

RECURSIVE Project(_)
Project(rs) == IF rs = <<>> THEN <<>> ELSE <<EventOf(Head(rs))>> \o Project(Tail(rs))
map(items, uuids) == Project(SelectSeq(mapResults(items, uuids), IsEvent))

(***************************************************************************)
(* Serializer: IcsCalendarSerializer                                       *)
(***************************************************************************)
\* input.replace(/c/g, rep): every occurrence of the character c, left to right
RECURSIVE replaceAll(_, _, _)
replaceAll(s, c, rep) ==
    IF s = <<>> THEN <<>>
    ELSE (IF Head(s) = c THEN rep ELSE <<Head(s)>>) \o replaceAll(Tail(s), c, rep)

\* an escapeText that escapes the backslash last
escapeTextBackslashLast(input) ==
    replaceAll(
        replaceAll(
            replaceAll(
                replaceAll(input, "\n", <<"\\", "n">>),
                ",", <<"\\", ",">>),
            ";", <<"\\", ";">>),
        "\\", <<"\\", "\\">>)

\* escapeText: backslash, newline, comma, semicolon, in this order
escapeText(input) ==
    replaceAll(
        replaceAll(
            replaceAll(
                replaceAll(input, "\\", <<"\\", "\\">>),
                "\n", <<"\\", "n">>),
            ",", <<"\\", ",">>),
        ";", <<"\\", ";">>)

TZID == "Asia/Ho_Chi_Minh"

\* a serializeEvent that stamps the event with its identifier
serializeEventStampedWithUid(e) ==
    <<"BEGIN:VEVENT\n", "UID:">> \o e.uid \o <<"\n">>
    \o <<"DTSTAMP:">> \o e.uid \o <<"\n">>
    \o <<"DTSTART;TZID=", TZID, ":">> \o e.start \o <<"\n">>
    \o <<"DTEND;TZID=", TZID, ":">> \o e.end \o <<"\n">>
    \o <<"SUMMARY:">> \o escapeText(e.title) \o <<"\n">>
    \o <<"LOCATION:">> \o escapeText(e.location) \o <<"\n">>
    \o <<"DESCRIPTION:">> \o escapeText(e.description) \o <<"\n">>
    \o <<"END:VEVENT\n">>

\* The fixed lines of the templates are one element each; the texts spliced
\* into them are spliced character by character.
serializeEvent(e) ==
    <<"BEGIN:VEVENT\n", "UID:">> \o e.uid \o <<"\n">>
    \o <<"DTSTAMP:">> \o e.start \o <<"\n">>
    \o <<"DTSTART;TZID=", TZID, ":">> \o e.start \o <<"\n">>
    \o <<"DTEND;TZID=", TZID, ":">> \o e.end \o <<"\n">>
    \o <<"SUMMARY:">> \o escapeText(e.title) \o <<"\n">>
    \o <<"LOCATION:">> \o escapeText(e.location) \o <<"\n">>
    \o <<"DESCRIPTION:">> \o escapeText(e.description) \o <<"\n">>
    \o <<"END:VEVENT\n">>

CalendarHeader ==
    <<"BEGIN:VCALENDAR\n", "VERSION:2.0\n", "CALSCALE:GREGORIAN\n",
      "PRODID:-//TMU//Schedule Exporter//VN\n", "BEGIN:VTIMEZONE\n",
      "TZID:", TZID, "\n", "BEGIN:STANDARD\n", "DTSTART:19700101T000000\n",
      "TZOFFSETFROM:+0700\n", "TZOFFSETTO:+0700\n", "TZNAME:ICT\n",
      "END:STANDARD\n", "END:VTIMEZONE\n">>

RECURSIVE joinEvents(_)
joinEvents(events) ==
    IF events = <<>> THEN <<>> ELSE serializeEvent(Head(events)) \o joinEvents(Tail(events))

serialize(events) == CalendarHeader \o joinEvents(events) \o <<"END:VCALENDAR">>

(***************************************************************************)
(* Schedule service: TMUScheduleService.loadCurrentTermSchedules           *)
(***************************************************************************)
\* a check that misses the empty array
weeksMissingNullOnly(weeks) == weeks.kind = "null"

\* !weeks || weeks.length === 0
weeksMissing(weeks) == weeks.kind = "null" \/ (weeks.kind = "array" /\ Len(weeks.items) = 0)

\* weeks.filter(w => same TermID and YearStudy as weeks[0])
\* a filter that stops at the first week of another term
RECURSIVE takeWhileSameTerm(_, _)
takeWhileSameTerm(items, first) ==
    IF items = <<>> \/ Head(items).TermID # first.TermID
                   \/ Head(items).YearStudy # first.YearStudy
    THEN <<>>
    ELSE <<Head(items)>> \o takeWhileSameTerm(Tail(items), first)
termWeeksPrefix(items) == IF items = <<>> THEN <<>> ELSE takeWhileSameTerm(items, items[1])

\* (the callback is never called on an empty array, where weeks[0] is undefined)
termWeeksOf(items) ==
    IF items = <<>> THEN <<>>
    ELSE LET currentTerm == items[1] IN
         SelectSeq(items, LAMBDA w : w.TermID = currentTerm.TermID
                                     /\ w.YearStudy = currentTerm.YearStudy)

\* one getJson call: GET DrawingSchedules?namhoc=&hocky=&tuan= with the headers
Request(week, headers) ==
    [namhoc |-> week.YearStudy, hocky |-> week.TermID, tuan |-> week.Week,
     headers |-> headers, outcome |-> Pending, rank |-> 0]

\* The synchronous part of loadCurrentTermSchedules, run by the click that
\* starts the export: the notice it raises, the state of its promise and the
\* requests it launches (termWeeks.map starts every fetch before the await).
startLoad(weeks, headers) ==
    IF weeksMissing(weeks)
    THEN [alerts |-> <<"week-data-not-loaded">>, agg |-> "resolved", reqs |-> <<>>]
    ELSE IF headers = NullHeaders
    THEN [alerts |-> <<"credentials-not-captured">>, agg |-> "resolved", reqs |-> <<>>]
    ELSE IF weeks.kind # "array"
    THEN \* weeks[0] is undefined and weeks.filter is not a function: TypeError
         [alerts |-> <<>>, agg |-> "rejected", reqs |-> <<>>]
    ELSE [alerts |-> <<>>, agg |-> "pending",
          reqs |-> [i \in 1..Len(termWeeksOf(weeks.items)) |->
                        Request(termWeeksOf(weeks.items)[i], headers)]]

\* what the async callback of one week returns: data.ResultDataSchedule ?? [],
\* and [] from the catch block when getJson or the field access throws
weekResult(outcome) == IF outcome.kind = "records" THEN outcome.records ELSE <<>>

\* Promise.all keeps the order of termWeeks; results.flat() concatenates
RECURSIVE flat(_)
flat(results) == IF results = <<>> THEN <<>> ELSE Head(results) \o flat(Tail(results))
\* a result assembled in the order the fetches completed
loadResultByCompletion(rs) ==
    flat([k \in 1..Len(rs) |->
            weekResult(rs[CHOOSE i \in 1..Len(rs) : rs[i].rank = k].outcome)])

loadResult(rs) == flat([i \in 1..Len(rs) |-> weekResult(rs[i].outcome)])

\* a result assembled from the weeks the cached list holds when the run resumes
aggregateOfCachedWeeks(rs) ==
    [agg |-> "resolved",
     value |-> flat([i \in 1..Len(rs) |->
                IF cachedWeeks.kind = "array"
                   /\ \E j \in 1..Len(cachedWeeks.items) :
                        cachedWeeks.items[j] = Week(rs[i].hocky, rs[i].namhoc, rs[i].tuan)
                THEN weekResult(rs[i].outcome) ELSE <<>>])]

\* a Promise.all over callbacks that do not catch
aggregateOfNoCatch(rs) ==
    IF \E i \in 1..Len(rs) : rs[i].outcome \in Failures
    THEN [agg |-> "rejected", value |-> <<>>]
    ELSE [agg |-> "resolved", value |-> loadResult(rs)]

\* how the promise of loadCurrentTermSchedules settles once every fetch has:
\* every callback catches, so Promise.all never rejects
aggregateOf(rs) == [agg |-> "resolved", value |-> loadResult(rs)]

\* a race: one settled fetch is enough
SomeSettled == reqs = <<>> \/ \E i \in 1..Len(reqs) : reqs[i].outcome # Pending

\* Promise.all over callbacks that catch settles when the last of them has
AllSettled == \A i \in 1..Len(reqs) : reqs[i].outcome # Pending

(***************************************************************************)
(* Export flow: TMUExporterApp.exportCurrentTerm                           *)
(***************************************************************************)
ExportLabel == "Export"
WorkingLabel == "..."     \* the hourglass label

File(content) ==
    [filename |-> "tmu-current-term.ics", mime |-> "text/calendar;charset=utf-8;",
     content |-> content]

\* a catch block that lets the exception through
uncaught(step, events) ==
    [alerts |-> <<>>, logged |-> FALSE, downloads |-> <<>>, mapped |-> FALSE, events |-> events,
     outcome |-> "failed", thrownBy |-> step, escaped |-> TRUE]

\* a catch block that writes nothing to the console
caughtSilently(step, events) ==
    [alerts |-> <<"export-failed">>, logged |-> FALSE, downloads |-> <<>>, mapped |-> FALSE,
     events |-> events, outcome |-> "failed", thrownBy |-> step, escaped |-> FALSE]

\* the catch block: console.error and the failure notice; the exception stops there
caught(step, events) ==
    [alerts |-> <<"export-failed">>, logged |-> TRUE, downloads |-> <<>>, mapped |-> FALSE,
     events |-> events, outcome |-> "failed", thrownBy |-> step, escaped |-> FALSE]

\* a check that never finds the event list empty
neverEmpty(events) == FALSE

\* events.length === 0
noEvents(events) == Len(events) = 0

\* The body of exportCurrentTerm once the await settles, as the notices, the
\* console output, the files handed to the downloader and the way it ended.
\* `rejected`: the awaited promise rejected; `downloadOk`: downloadTextFile
\* returns rather than throws.
afterAwait(rejected, schedules, uuids, downloadOk) ==
    LET events == map(schedules, uuids) IN
    IF rejected THEN caught("aggregation", <<>>)
    ELSE IF mapThrows(schedules, uuids) THEN caught("mapping", <<>>)
    ELSE IF noEvents(events)
    THEN [alerts |-> <<"nothing-to-export">>, logged |-> FALSE, downloads |-> <<>>,
          mapped |-> TRUE, events |-> events,
          outcome |-> "nothing", thrownBy |-> "", escaped |-> FALSE]
    ELSE IF ~downloadOk
    THEN [caught("file-save", events) EXCEPT
            !.mapped = TRUE, !.downloads = <<File(serialize(events))>>]
    ELSE [alerts |-> <<>>, logged |-> FALSE, downloads |-> <<File(serialize(events))>>,
          mapped |-> TRUE, events |-> events,
          outcome |-> "saved", thrownBy |-> "", escaped |-> FALSE]

\* a cleanup that resets the label and leaves the button disabled
restoredLabelOnly(b) == [b EXCEPT !.textContent = ExportLabel]

\* the finally block's two statements
restored(b) == [b EXCEPT !.textContent = ExportLabel, !.disabled = FALSE]

\* a restore at the end of the try block instead of in a finally block
buttonAfterNoFinally(b, done) == IF done.outcome = "saved" THEN restored(b) ELSE b

\* the finally block: it runs however the try block ended
buttonAfter(b, done) == restored(b)

\* a busy indicator that leaves the button enabled
busyLabelOnly(b) == [b EXCEPT !.textContent = WorkingLabel]

\* the first two statements of exportCurrentTerm
busy(b) == [b EXCEPT !.textContent = WorkingLabel, !.disabled = TRUE]

NoRun ==
    [alerts |-> <<>>, logged |-> FALSE, downloads |-> <<>>, mapped |-> FALSE, events |-> <<>>,
     schedules |-> <<>>, agg |-> "none", outcome |-> "none", thrownBy |-> "",
     escaped |-> FALSE]

\* IdFactory.uid draws a fresh random UUID for every event: the draws of one
\* run differ from each other, and what they are differs from run to run.
UuidSeeds == {1, 2}
FreshUuids(n, seed) == [i \in 1..n |-> ToText(seed) \o <<"-">> \o ToText(i)]

(***************************************************************************)
(* Tasks of the page                                                       *)
(***************************************************************************)
\* The continuation of an await runs as a microtask: once the awaited promise
\* of the export run has settled, no other task runs before the continuation.
ContinuationReady == pc = "awaiting" /\ AllSettled
TaskMayRun == ~ContinuationReady

\* The host page creates a new XMLHttpRequest object.
NewXhr ==
    /\ TaskMayRun
    /\ xhr' = FreshXhr
    /\ UNCHANGED <<apiKey, authorization, cachedWeeks, firstSeen, hostCall, console>>
    /\ UNCHANGED runVars

\* XMLHttpRequest.prototype.setRequestHeader as overridden
setRequestHeader(key, value) ==
    /\ TaskMayRun
    /\ apiKey' = CapturedApiKey(key, value)
    /\ authorization' = CapturedAuthorization(key, value)
    /\ firstSeen' = FirstSeenAfter(key, value)
    /\ hostCall' = [op |-> "setRequestHeader", args |-> <<key, value>>,
                    origCalls |-> 1, origArgs |-> <<key, value>>, threw |-> FALSE]
    /\ UNCHANGED <<cachedWeeks, xhr, console>>
    /\ UNCHANGED runVars

\* XMLHttpRequest.prototype.open as overridden: record the URL, call the
\* original (which drops a request in flight).
open(url) ==
    /\ TaskMayRun
    /\ xhr' = [xhr EXCEPT !.tmu_url = url, !.nativeUrl = url, !.sent = FALSE]
    /\ hostCall' = [op |-> "open", args |-> <<url>>, origCalls |-> 1,
                    origArgs |-> <<url>>, threw |-> FALSE]
    /\ UNCHANGED <<apiKey, authorization, cachedWeeks, firstSeen, console>>
    /\ UNCHANGED runVars

\* xhr._tmu_url?.includes("/WeekSchedule"): undefined for no URL, a boolean for
\* a string, a TypeError for a URL object (it has no `includes`).
sendThrows(x) == x.tmu_url.type = "URL"
sendListens(x) == x.tmu_url.type = "string" /\ includesWeekSchedule(x.tmu_url.href)

\* XMLHttpRequest.prototype.send as overridden
send ==
    /\ TaskMayRun
    /\ IF sendThrows(xhr)
       THEN /\ hostCall' = [op |-> "send", args |-> <<>>, origCalls |-> 0,
                            origArgs |-> <<>>, threw |-> TRUE]
            /\ xhr' = xhr
       ELSE /\ sendListens(xhr) => xhr.listeners < MaxListeners
            /\ hostCall' = [op |-> "send", args |-> <<>>, origCalls |-> 1,
                            origArgs |-> <<>>, threw |-> FALSE]
            /\ xhr' = [xhr EXCEPT
                        !.listeners = IF sendListens(xhr) THEN @ + 1 ELSE @,
                        !.sent = xhr.nativeUrl.type # "undefined"]
    /\ UNCHANGED <<apiKey, authorization, cachedWeeks, firstSeen, console>>
    /\ UNCHANGED runVars

\* JSON.parse(responseText) throws
parseThrows(body) == body.kind = "invalid"

\* what the load listener leaves in cachedWeeks
weeksAfterLoad(body) == IF parseThrows(body) THEN cachedWeeks ELSE body

\* The request in flight completes: every load listener the interceptor
\* attached to the object runs.
load(body) ==
    /\ TaskMayRun
    /\ xhr.sent
    /\ xhr' = [xhr EXCEPT !.sent = FALSE]
    /\ IF xhr.listeners > 0
       THEN /\ cachedWeeks' = weeksAfterLoad(body)
            /\ console' = IF parseThrows(body) THEN "warn" ELSE "log"
       ELSE UNCHANGED <<cachedWeeks, console>>
    /\ UNCHANGED <<apiKey, authorization, firstSeen, hostCall>>
    /\ UNCHANGED runVars

\* The request in flight ends without a load event (error, abort, timeout).
loadError ==
    /\ TaskMayRun
    /\ xhr.sent
    /\ xhr' = [xhr EXCEPT !.sent = FALSE]
    /\ UNCHANGED <<apiKey, authorization, cachedWeeks, firstSeen, hostCall, console>>
    /\ UNCHANGED runVars

\* addButtonIfPossible once the container is there: a clone of the sample
\* button (its disabled state included), labelled Export.
addButtonIfPossible(sampleDisabled) ==
    /\ TaskMayRun
    /\ ~btn.present
    /\ btn' = [present |-> TRUE, disabled |-> sampleDisabled, textContent |-> ExportLabel]
    /\ UNCHANGED <<pc, reqs, run>>
    /\ UNCHANGED obsVars

\* A click on the button: exportCurrentTerm up to its await, which includes
\* the synchronous part of loadCurrentTermSchedules.
exportCurrentTerm ==
    /\ TaskMayRun
    /\ btn.present /\ ~btn.disabled
    /\ LET started == startLoad(getWeeks, getAuthHeaders) IN
        /\ btn' = busy(btn)
        /\ reqs' = started.reqs
        /\ run' = [NoRun EXCEPT !.alerts = started.alerts, !.agg = started.agg,
                                !.outcome = "running"]
        /\ pc' = "awaiting"
    /\ UNCHANGED obsVars

\* The fetch of request i settles.
settle(i, outcome) ==
    /\ TaskMayRun
    /\ pc = "awaiting"
    /\ i \in 1..Len(reqs)
    /\ reqs[i].outcome = Pending
    /\ reqs' = [reqs EXCEPT ![i].outcome = outcome,
                             ![i].rank = 1 + Cardinality({j \in 1..Len(reqs) : reqs[j].rank > 0})]
    /\ UNCHANGED <<btn, pc, run>>
    /\ UNCHANGED obsVars

\* The await of exportCurrentTerm resumes and the function runs to its end.
resume(downloadOk, seed) ==
    /\ ContinuationReady
    \* (each \E binds the value of an expression, evaluated once)
    /\ \E awaited \in {IF run.agg = "pending" THEN aggregateOf(reqs)
                        ELSE [agg |-> run.agg, value |-> <<>>]} :
       \E done \in {afterAwait(awaited.agg = "rejected", awaited.value,
                               FreshUuids(Len(awaited.value), seed), downloadOk)} :
        /\ run' = [alerts |-> run.alerts \o done.alerts, logged |-> done.logged,
                   downloads |-> done.downloads, mapped |-> done.mapped, events |-> done.events,
                   schedules |-> awaited.value, agg |-> awaited.agg,
                   outcome |-> done.outcome, thrownBy |-> done.thrownBy,
                   escaped |-> done.escaped]
        /\ btn' = buttonAfter(btn, done)
    /\ pc' = "idle"
    /\ UNCHANGED reqs
    /\ UNCHANGED obsVars

(***************************************************************************)
(* Specifications                                                          *)
(***************************************************************************)
NoButton == [present |-> FALSE, disabled |-> FALSE, textContent |-> ""]

\* The page after the userscript's bootstrap: nothing captured, no button yet.
Init ==
    /\ apiKey = NULL
    /\ authorization = NULL
    /\ cachedWeeks = JsonNull
    /\ firstSeen = NothingSeen
    /\ xhr = FreshXhr
    /\ hostCall = NoCall
    /\ console = "none"
    /\ btn = NoButton
    /\ pc = "idle"
    /\ reqs = <<>>
    /\ run = NoRun

\* The whole page: host traffic interleaved with export runs, on a small
\* set of headers, URLs, bodies and fetch outcomes.
PageHeaders == {<<"ApiKey", "k1">>, <<"apikey", "">>, <<"AUTHORIZATION", "k2">>}
PageUrls == {StringUrl(h) : h \in Hrefs}
PageBodies == {JsonInvalid,
               JsonArray(<<Week(1, 2025, 1), Week(1, 2025, 2)>>),
               JsonArray(<<Week(2, 2025, 1)>>)}
PageOutcomes == {HttpError, Records(<<ItemA>>)}

Next ==
    \/ NewXhr
    \/ \E h \in PageHeaders : setRequestHeader(h[1], h[2])
    \/ \E url \in PageUrls : open(url)
    \/ send
    \/ \E body \in PageBodies : load(body)
    \/ loadError
    \/ \E d \in BOOLEAN : addButtonIfPossible(d)
    \/ exportCurrentTerm
    \/ \E i \in 1..Len(reqs), o \in PageOutcomes : settle(i, o)
    \/ \E ok \in BOOLEAN, seed \in UuidSeeds : resume(ok, seed)

Spec == Init /\ [][Next]_vars

\* The interceptor alone, under every header name and value, URL and body.
NextObserver ==
    \/ NewXhr
    \/ \E key \in HeaderNames, value \in HeaderValues : setRequestHeader(key, value)
    \/ \E url \in Urls : open(url)
    \/ send
    \/ \E body \in WeekBodies : load(body)
    \/ loadError

SpecObserver == Init /\ [][NextObserver]_vars

\* Export runs alone, started from every state the interceptor can have
\* captured (one value per secret: the flow never compares values), under
\* every fetch outcome.
InitExport ==
    /\ apiKey \in {NULL, "", "k1"}
    /\ authorization \in {NULL, "", "k2"}
    /\ cachedWeeks \in WeekBodies \ {JsonInvalid}
    /\ firstSeen = [s \in Secrets |->
                        LET v == IF s = "apikey" THEN apiKey ELSE authorization
                        IN  [any |-> v, nonEmpty |-> IF v = "" THEN NULL ELSE v]]
    /\ xhr = FreshXhr
    /\ hostCall = NoCall
    /\ console = "none"
    /\ btn = NoButton
    /\ pc = "idle"
    /\ reqs = <<>>
    /\ run = NoRun

NextExport ==
    \/ \E d \in BOOLEAN : addButtonIfPossible(d)
    \/ exportCurrentTerm
    \/ \E i \in 1..Len(reqs), o \in Outcomes : settle(i, o)
    \/ \E ok \in BOOLEAN, seed \in UuidSeeds : resume(ok, seed)

SpecExport == InitExport /\ [][NextExport]_vars

\* Export runs alone, every fetch of which settles in the end: a request still
\* pending is eventually answered or fails, and the continuation of the await,
\* a microtask of the page, runs once the awaited promise has settled.
\* RunEnds describes the steps of resume by what they do to pc: resume is the
\* only action that takes pc from "awaiting" to "idle", and it is enabled
\* exactly when the continuation is ready.
SettleSome == \E i \in 1..Len(reqs), o \in Outcomes : settle(i, o)
RunEnds == ContinuationReady /\ pc' = "idle"
SpecExportFair ==
    InitExport /\ [][NextExport]_vars /\ WF_vars(SettleSome) /\ WF_pc(RunEnds)

\* Export runs alone, from longer week lists, under two fetch outcomes.
MaxLaunchWeeks == 3
LaunchOutcomes == {HttpError, Records(<<ItemA>>)}

InitLaunch ==
    /\ apiKey \in {NULL, "", "k1"}
    /\ authorization \in {NULL, "k2"}
    /\ cachedWeeks \in {JsonArray(l) : l \in SeqsUpTo(WeekItems, MaxLaunchWeeks)}
    /\ firstSeen = [s \in Secrets |->
                        LET v == IF s = "apikey" THEN apiKey ELSE authorization
                        IN  [any |-> v, nonEmpty |-> IF v = "" THEN NULL ELSE v]]
    /\ xhr = FreshXhr
    /\ hostCall = NoCall
    /\ console = "none"
    /\ btn = NoButton
    /\ pc = "idle"
    /\ reqs = <<>>
    /\ run = NoRun

NextLaunch ==
    \/ \E d \in BOOLEAN : addButtonIfPossible(d)
    \/ exportCurrentTerm
    \/ \E i \in 1..Len(reqs), o \in LaunchOutcomes : settle(i, o)
    \/ \E ok \in BOOLEAN, seed \in UuidSeeds : resume(ok, seed)

SpecLaunch == InitLaunch /\ [][NextLaunch]_vars

\* The mapper and the serializer under one export run of one week, whose
\* response carries records of every shape.
MaxText == 3
TextChars == {"n", "\\", "\n", ",", ";"}
Texts == SeqsUpTo(TextChars, MaxText)

GoodDate == <<"2", "5", "/", "0", "2", "/", "2", "0", "2", "6">>
OddDates ==
    {<<"5", "/", "2", "/", "2", "0", "2", "6">>,
     <<"0", "0", "/", "0", "2", "/", "2", "0", "2", "6">>,
     <<"2", "5", "/", "0", "2">>,
     <<"x", "/", "0", "2", "/", "2", "0", "2", "6">>,
     <<"2", "5", "/", "0", "2", "/", "2", "0", "2", "6", "/", "9">>,
     <<>>, Missing}
PeriodRange(s, e) == ToText(s) \o <<"-">> \o ToText(e)
OddPeriods ==
    {<<"0", "-", "3">>, <<"1", "-", "1", "3">>, <<"5">>, <<"x", "-", "3">>,
     <<"1", "-", "3", "-", "5">>, <<>>, Missing}
Room101 == <<"P", "1", "0", "1", "<", "/", "b", "r", ">", "e", "x", "t", "r", "a">>
OddRooms == {<<" ", "Q", " ">>, <<"<", "/", "b", "r", ">", "x">>, <<"R">>, Missing}

MapperItems ==
    {RawItem(GoodDate, PeriodRange(s, e), Room101, <<"A">>) :
        s \in DOMAIN PERIOD_TIME, e \in DOMAIN PERIOD_TIME}
    \cup {RawItem(GoodDate, PeriodRange(1, 3), <<"P">>, t) : t \in Texts}
    \cup {RawItem(date, PeriodRange(1, 3), Room101, <<"C">>) : date \in OddDates}
    \cup {RawItem(GoodDate, p, Room101, <<"D">>) : p \in OddPeriods}
    \cup {RawItem(GoodDate, PeriodRange(4, 5), room, <<"E">>) : room \in OddRooms}
PairItems == {ItemA, ItemB, ItemBadDate, RawItem(GoodDate, <<"5">>, Room101, <<"D">>)}
MapperRecordLists ==
    {<<>>} \cup {<<r>> : r \in MapperItems} \cup {<<a, b>> : a \in PairItems, b \in PairItems}
MapperOutcomes == {Records(l) : l \in MapperRecordLists}

InitMapper ==
    /\ apiKey = "k1"
    /\ authorization = "k2"
    /\ cachedWeeks = JsonArray(<<Week(1, 2025, 1)>>)
    /\ firstSeen = [s \in Secrets |->
                        LET v == IF s = "apikey" THEN apiKey ELSE authorization
                        IN  [any |-> v, nonEmpty |-> v]]
    /\ xhr = FreshXhr
    /\ hostCall = NoCall
    /\ console = "none"
    /\ btn = NoButton
    /\ pc = "idle"
    /\ reqs = <<>>
    /\ run = NoRun

NextMapper ==
    \/ \E d \in BOOLEAN : addButtonIfPossible(d)
    \/ exportCurrentTerm
    \/ \E i \in 1..Len(reqs), o \in MapperOutcomes : settle(i, o)
    \/ \E ok \in BOOLEAN, seed \in UuidSeeds : resume(ok, seed)

SpecMapper == InitMapper /\ [][NextMapper]_vars

(***************************************************************************)
(* Properties                                                              *)
(***************************************************************************)
Stored(s) == IF s = "apikey" THEN apiKey ELSE authorization

\* C1 as stated: each secret holds the value of the first header-set call whose
\* lower-cased name is the secret's, whatever that value is, and no later call
\* changes it.
C1_FirstCallWins == \A s \in Secrets : Stored(s) = firstSeen[s].any

\* C1 amended: each secret holds the value of the first header-set call whose
\* lower-cased name is the secret's and whose value is not empty, and no later
\* call changes it; until such a call it holds nothing or the empty value.
C1_FirstNonEmptyCallWins ==
    \A s \in Secrets :
        Stored(s) = IF firstSeen[s].nonEmpty # NULL THEN firstSeen[s].nonEmpty
                    ELSE firstSeen[s].any

\* an API key captured after an empty one, and kept when a later call carries another
C1_Witness ==
    /\ firstSeen["apikey"].any = ""
    /\ firstSeen["apikey"].nonEmpty = "k1"
    /\ apiKey = "k1"
    /\ hostCall.op = "setRequestHeader"
    /\ toLowerCase(hostCall.args[1]) = "apikey"
    /\ hostCall.args[2] = "k2"

\* C10: every header-set, open and send call of the host page reaches the
\* original operation exactly once, with the host's arguments, and the
\* interceptor raises no error into the call.
C10_HostCallsPassThrough ==
    hostCall.op # "none" =>
        /\ hostCall.origCalls = 1
        /\ hostCall.origArgs = hostCall.args
        /\ ~hostCall.threw

\* a secret is captured once a header-set call of its name carried a non-empty value
Captured(s) == firstSeen[s].nonEmpty # NULL
CredentialsNotice == <<"credentials-not-captured">>
WeeksNotice == <<"week-data-not-loaded">>
HasBothSecrets(r) ==
    /\ r.headers # NullHeaders
    /\ r.headers.apikey \notin {NULL, ""}
    /\ r.headers.authorization \notin {NULL, ""}

\* C2 as stated: while a secret is not captured the credentials query answers
\* "not available", and an export run started then issues no schedule request,
\* reports "credentials not captured" and gets an empty result; no schedule
\* request ever carries only one of the two secrets.
C2_MissingSecretAlwaysReported ==
    /\ (\E s \in Secrets : ~Captured(s)) => getAuthHeaders = NullHeaders
    /\ (pc = "awaiting" /\ \E s \in Secrets : ~Captured(s)) =>
            /\ reqs = <<>>
            /\ run.alerts = CredentialsNotice
            /\ run.agg = "resolved" /\ run.schedules = <<>>
    /\ \A i \in 1..Len(reqs) : HasBothSecrets(reqs[i])

\* C2 amended: as above, but the run reports "credentials not captured" only
\* when the cached week list is neither unavailable nor empty; otherwise it
\* reports "week data not loaded" (and still issues no request and gets an
\* empty result).
C2_MissingSecretBlocksRequests ==
    /\ (\E s \in Secrets : ~Captured(s)) => getAuthHeaders = NullHeaders
    /\ (pc = "awaiting" /\ \E s \in Secrets : ~Captured(s)) =>
            /\ reqs = <<>>
            /\ run.alerts = IF cachedWeeks \in {JsonNull, JsonArray(<<>>)}
                            THEN WeeksNotice ELSE CredentialsNotice
            /\ run.agg = "resolved" /\ run.schedules = <<>>
    /\ \A i \in 1..Len(reqs) : HasBothSecrets(reqs[i])

\* a run started with the API key captured, the token not, and weeks cached
C2_Witness ==
    /\ pc = "awaiting"
    /\ Captured("apikey") /\ ~Captured("authorization")
    /\ cachedWeeks.kind = "array" /\ Len(cachedWeeks.items) > 0
    /\ run.alerts = CredentialsNotice
    /\ reqs = <<>>

\* C3: an export run started while the cached week list is unavailable or
\* empty reports "week data not loaded", issues no schedule request and its
\* aggregation resolves (does not fail) with an empty list, with or without
\* credentials.
C3_MissingWeeksSoftNoOp ==
    (run.outcome # "none" /\ cachedWeeks \in {JsonNull, JsonArray(<<>>)}) =>
        /\ reqs = <<>>
        /\ Len(run.alerts) >= 1 /\ <<run.alerts[1]>> = WeeksNotice
        /\ run.agg = "resolved" /\ run.schedules = <<>>

\* a run started on an empty week list with both secrets captured
C3_Witness ==
    /\ pc = "awaiting"
    /\ cachedWeeks = JsonArray(<<>>)
    /\ Captured("apikey") /\ Captured("authorization")
    /\ run.alerts = WeeksNotice

\* C4: a run hands at most one file to the downloader, and only after the
\* mapper produced an event; when mapping yields no event the run reports
\* "nothing to export" and hands over no file.
C4_SaveOnlyWithEvents ==
    /\ Len(run.downloads) <= 1
    /\ run.downloads # <<>> => run.mapped /\ Len(run.events) >= 1
    /\ (run.mapped /\ run.events = <<>>) =>
            /\ run.downloads = <<>>
            /\ run.alerts # <<>>
            /\ run.alerts[Len(run.alerts)] = "nothing-to-export"

\* a finished run on an empty week list: two notices, no file
C4_Witness ==
    /\ pc = "idle"
    /\ cachedWeeks = JsonArray(<<>>)
    /\ run.alerts = WeeksNotice \o <<"nothing-to-export">>
    /\ run.mapped /\ run.downloads = <<>>

\* the records of weeks i.. of the run, a failed week counting for none
RECURSIVE SucceededFrom(_)
SucceededFrom(i) ==
    IF i > Len(reqs) THEN <<>>
    ELSE (IF reqs[i].outcome \in Failures THEN <<>> ELSE reqs[i].outcome.records)
         \o SucceededFrom(i + 1)

\* C5: when fetches of a run fail, the aggregation still resolves, and with
\* exactly the records of the weeks whose fetch succeeded, in week order.
C5_FailedWeeksContributeNothing ==
    (pc = "idle" /\ reqs # <<>>) =>
        /\ run.agg = "resolved"
        /\ run.schedules = SucceededFrom(1)

\* the first week failed with an HTTP error, the second delivered two records
C5_Witness ==
    /\ pc = "idle"
    /\ Len(reqs) = 2
    /\ reqs[1].outcome = HttpError
    /\ reqs[2].outcome = Records(<<ItemB, ItemA>>)
    /\ run.schedules = <<ItemB, ItemA>>

\* where the records of week i start in the flattened result
RECURSIVE OffsetOf(_)
OffsetOf(i) == IF i = 1 THEN 0 ELSE OffsetOf(i - 1) + Len(reqs[i - 1].outcome.records)

\* C6: whatever the order in which the fetches completed, the flattened result
\* holds the records of week 1, then of week 2, ..., each in response order.
C6_WeekOrderKept ==
    (pc = "idle" /\ run.agg = "resolved" /\ reqs # <<>>) =>
        /\ Len(run.schedules) = OffsetOf(Len(reqs) + 1)
        /\ \A i \in 1..Len(reqs) :
            SubSeq(run.schedules, OffsetOf(i) + 1, OffsetOf(i + 1)) = reqs[i].outcome.records

\* the second week's fetch completed before the first's
C6_Witness ==
    /\ pc = "idle"
    /\ Len(reqs) = 2
    /\ reqs[1].rank = 2 /\ reqs[2].rank = 1
    /\ reqs[1].outcome = Records(<<ItemA>>)
    /\ reqs[2].outcome = Records(<<ItemB, ItemA>>)
    /\ run.schedules = <<ItemA, ItemB, ItemA>>

\* the weeks the requests of the run ask for, in request order
RequestedWeeks == [i \in 1..Len(reqs) |-> Week(reqs[i].hocky, reqs[i].namhoc, reqs[i].tuan)]

\* is `picked` the list of the elements of `items` of the term and year of `first`
RECURSIVE IsTermSelection(_, _, _)
IsTermSelection(picked, items, first) ==
    IF items = <<>> THEN picked = <<>>
    ELSE IF Head(items).TermID = first.TermID /\ Head(items).YearStudy = first.YearStudy
         THEN picked # <<>> /\ Head(picked) = Head(items)
              /\ IsTermSelection(Tail(picked), Tail(items), first)
         ELSE IsTermSelection(picked, Tail(items), first)

\* C7 as stated: for every non-empty cached week list, a run requests exactly
\* the weeks of the list with the first week's term and year, in list order,
\* one request each.
C7_RequestsAreTermWeeks ==
    (run.outcome # "none" /\ cachedWeeks.kind = "array" /\ cachedWeeks.items # <<>>) =>
        IsTermSelection(RequestedWeeks, cachedWeeks.items, cachedWeeks.items[1])

\* C7 amended: the same, for a run started with both secrets captured (without
\* them the run issues no request at all).
C7_RequestsAreTermWeeksWithCredentials ==
    (run.outcome # "none" /\ cachedWeeks.kind = "array" /\ cachedWeeks.items # <<>>
     /\ Captured("apikey") /\ Captured("authorization")) =>
        IsTermSelection(RequestedWeeks, cachedWeeks.items, cachedWeeks.items[1])

\* a week of another term between two weeks of the current term
C7_Witness ==
    /\ pc = "awaiting"
    /\ cachedWeeks = JsonArray(<<Week(1, 2025, 2), Week(2, 2025, 1), Week(1, 2025, 1)>>)
    /\ RequestedWeeks = <<Week(1, 2025, 2), Week(1, 2025, 1)>>

\* C8: while an export run is in progress the button is disabled and shows the
\* working label; once the run has ended, however it ended, the button is
\* enabled and shows its normal label.
C8_ButtonBusyThenRestored ==
    /\ pc = "awaiting" => btn.disabled /\ btn.textContent = WorkingLabel
    /\ (pc = "idle" /\ run.outcome # "none") =>
            ~btn.disabled /\ btn.textContent = ExportLabel

\* a run ended by an exception of the downloader, the button usable again
C8_Witness ==
    /\ pc = "idle"
    /\ run.thrownBy = "file-save"
    /\ ~btn.disabled /\ btn.textContent = ExportLabel

\* C9: when a step of the run throws, the run ends with the failure notice and
\* the console entry, the exception stays inside the run, no file is saved
\* after the failure, and the button can start another run.
C9_ThrowIsCaught ==
    run.thrownBy # "" =>
        /\ pc = "idle"
        /\ run.outcome = "failed"
        /\ run.alerts # <<>>
        /\ run.alerts[Len(run.alerts)] = "export-failed"
        /\ run.logged
        /\ ~run.escaped
        /\ run.thrownBy # "file-save" => run.downloads = <<>>
        /\ btn.present /\ ~btn.disabled /\ TaskMayRun

\* the mapper threw on a record without a date
C9_Witness ==
    /\ run.thrownBy = "mapping"
    /\ run.alerts = <<"export-failed">>
    /\ \E i \in 1..Len(reqs) : reqs[i].outcome = Records(<<ItemNoDate>>)

\* the URL recorded on the object names the week-list endpoint
TargetsWeekList(x) == x.tmu_url.type = "string" /\ includesWeekSchedule(x.tmu_url.href)

\* C11: the cached week list changes only when a request whose recorded URL
\* targets the week-list endpoint completes, and then the parsed body is logged
\* as captured; a completion whose body does not parse leaves the list as it
\* was and raises nothing to the host; completions of requests to any other
\* URL never change the list.
C11_WeeksChangeOnlyOnWeekListLoad ==
    [][/\ cachedWeeks' # cachedWeeks =>
            /\ xhr.sent /\ ~xhr'.sent
            /\ TargetsWeekList(xhr)
            /\ console' = "log"
       /\ (xhr.sent /\ ~xhr'.sent /\ xhr' # FreshXhr /\ console' = "warn") =>
            /\ cachedWeeks' = cachedWeeks
            /\ hostCall' = hostCall]_vars

\* the numbers of the parts of a text field split at `sep`
PartsOf(field, sep) == [i \in 1..Len(split(field, sep)) |-> Number(split(field, sep)[i])]

\* a record whose date has three non-zero integer components and whose period
\* range names two periods of the table
HasDate(item) ==
    /\ item.Date # Missing
    /\ Len(PartsOf(item.Date, <<"/">>)) = 3
    /\ \A i \in 1..3 : PartsOf(item.Date, <<"/">>)[i].kind = "number"
                       /\ PartsOf(item.Date, <<"/">>)[i].n # 0
HasPeriods(item) ==
    /\ item.PeriodName # Missing
    /\ Len(PartsOf(item.PeriodName, <<"-">>)) = 2
    /\ \A i \in 1..2 : PartsOf(item.PeriodName, <<"-">>)[i].kind = "number"
                       /\ PartsOf(item.PeriodName, <<"-">>)[i].n \in 1..12
Mappable(item) == HasDate(item) /\ HasPeriods(item)

\* a finished run whose aggregation delivered records
Finished == pc = "idle" /\ run.outcome \notin {"none", "running"}

\* C12: mapping a record list never fails because of a malformed record; its
\* output has exactly one event per record with a date of three non-zero
\* integer components and two period indices of the table, in input order (the
\* titles of the events are those of these records), and none for any other
\* record, so it is never longer than the input.
C12_MapperIsAFilter ==
    (Finished /\ run.agg = "resolved" /\ run.schedules # <<>>) =>
        /\ run.thrownBy # "mapping"
        /\ run.mapped
        /\ Len(run.events) <= Len(run.schedules)
        /\ Len(run.events) = Len(SelectSeq(run.schedules, Mappable))
        /\ \A k \in 1..Len(run.events) :
            SubSeq(run.events[k].title, 1, Len(SelectSeq(run.schedules, Mappable)[k].CurriculumName))
                = SelectSeq(run.schedules, Mappable)[k].CurriculumName

\* the records of the run that toEvent turned into events, in order: the k-th
\* event of the run was mapped from the k-th of them
Kept(item) == IsEvent(toEvent(item, <<>>))
SourceOf(k) == SelectSeq(run.schedules, Kept)[k]

\* the date and the clock time (hhmmss, as a number) of a compact timestamp
DateOf(ts) == SubSeq(ts, 1, Len(ts) - 7)
ClockOf(ts) == DecimalValue(SubSeq(ts, Len(ts) - 5, Len(ts)))

\* C13: every mapped event (both period indices were found in the table)
\* starts strictly before it ends.
C13_StartBeforeEnd ==
    run.mapped =>
        \A k \in 1..Len(run.events) :
            /\ DateOf(run.events[k].start) = DateOf(run.events[k].end)
            /\ ClockOf(run.events[k].start) < ClockOf(run.events[k].end)

\* YYYYMMDDTHHMMSS
TwoDigits(n) == <<Digits[(n \div 10) + 1], Digits[(n % 10) + 1]>>
FourDigits(n) == TwoDigits(n \div 100) \o TwoDigits(n % 100)
Compact(y, m, d, h, min) ==
    FourDigits(y) \o TwoDigits(m) \o TwoDigits(d) \o <<"T">> \o TwoDigits(h) \o TwoDigits(min)
    \o <<"0", "0">>

\* the room fields of the inputs and the part before their first line-break
\* marker, trimmed
ExpectedRoom(roomId) ==
    CASE roomId = Room101 -> <<"P", "1", "0", "1">>
      [] roomId = <<"P", "1", "<", "/", "b", "r", ">", "x">> -> <<"P", "1">>
      [] roomId = <<" ", "Q", " ">> -> <<"Q">>
      [] roomId = <<"<", "/", "b", "r", ">", "x">> -> <<>>
      [] roomId = <<"R">> -> <<"R">>
      [] roomId = <<"P">> -> <<"P">>

LabelAt(c, label, k) ==
    CHOOSE i \in 1..Len(c) : c[i] = label /\ Cardinality({j \in 1..i : c[j] = label}) = k
LineEnd(c, i) ==
    CHOOSE j \in (i + 1)..Len(c) : c[j] = "\n" /\ \A m \in (i + 1)..(j - 1) : c[m] # "\n"
\* the rest of the line after the k-th occurrence of `label`
FieldOf(c, label, k) == SubSeq(c, LabelAt(c, label, k) + 1, LineEnd(c, LabelAt(c, label, k)) - 1)

\* every occurrence of the two characters `a` `b` replaced by `c`, left to right
RECURSIVE replacePairs(_, _, _, _)
replacePairs(s, a, b, c) ==
    IF s = <<>> THEN <<>>
    ELSE IF Len(s) >= 2 /\ s[1] = a /\ s[2] = b
         THEN <<c>> \o replacePairs(SubSeq(s, 3, Len(s)), a, b, c)
         ELSE <<Head(s)>> \o replacePairs(Tail(s), a, b, c)

\* the four substitutions reversed one after another, last one first
ReverseSubstitutions(s) ==
    replacePairs(
        replacePairs(
            replacePairs(
                replacePairs(s, "\\", ";", ";"),
                "\\", ",", ","),
            "\\", "n", "\n"),
        "\\", "\\", "\\")

\* one pass from the left: a backslash and the character after it are one escape
RECURSIVE Unescape(_)
Unescape(s) ==
    IF s = <<>> THEN <<>>
    ELSE IF Head(s) = "\\" /\ Len(s) >= 2
         THEN <<IF s[2] = "n" THEN "\n" ELSE s[2]>> \o Unescape(SubSeq(s, 3, Len(s)))
         ELSE <<Head(s)>> \o Unescape(Tail(s))

Reserved == {"\\", "\n", ",", ";"}
ReservedIn(t) == Cardinality({i \in 1..Len(t) : t[i] \in Reserved})

\* the text fields of the events as they stand in the saved file
Saved == run.downloads # <<>>
SavedField(label, k) == FieldOf(run.downloads[1].content, label, k)

\* C14 as stated: reversing the four substitutions on an escaped text gives the
\* text back, for every text over ordinary characters, backslash, newline,
\* comma and semicolon.
C14_ReversedSubstitutionsRoundTrip ==
    Saved =>
        \A k \in 1..Len(run.events) :
            /\ ReverseSubstitutions(SavedField("SUMMARY:", k)) = run.events[k].title
            /\ ReverseSubstitutions(SavedField("DESCRIPTION:", k)) = run.events[k].description

\* no two texts escape to the same text
EscapeIsInjective == \A s \in Texts, t \in Texts : escapeText(s) = escapeText(t) => s = t

\* C14 amended: reading an escaped text in one pass from the left, each
\* backslash together with the character after it as one escape, gives the
\* text back; every reserved character adds exactly one backslash (an
\* introduced backslash is never escaped again); two different texts never
\* escape to the same text.
C14_EscapeRoundTrip ==
    /\ EscapeIsInjective
    /\ Saved =>
        \A k \in 1..Len(run.events) :
            /\ Unescape(SavedField("SUMMARY:", k)) = run.events[k].title
            /\ Unescape(SavedField("LOCATION:", k)) = run.events[k].location
            /\ Unescape(SavedField("DESCRIPTION:", k)) = run.events[k].description
            /\ Len(SavedField("SUMMARY:", k))
                    = Len(run.events[k].title) + ReservedIn(run.events[k].title)
            /\ Len(SavedField("DESCRIPTION:", k))
                    = Len(run.events[k].description) + ReservedIn(run.events[k].description)

\* a saved title with a backslash before the letter n, and a semicolon
C14_Witness ==
    /\ Saved
    /\ Len(run.events) = 1
    /\ run.events[1].title = <<"\\", "n", ";", " ", "-", " ", "P">>
    /\ SavedField("SUMMARY:", 1) = <<"\\", "\\", "n", "\\", ";", " ", "-", " ", "P">>

\* a calendar text without its unique-identifier lines: the pieces before the
\* first of these lines, between one and the next, and after the last
UidStarts(c) == {i \in 1..Len(c) : c[i] = "UID:"}
NthOf(S, k) == CHOOSE m \in S : Cardinality({x \in S : x <= m}) = k
WithoutUidLines(c) ==
    [k \in 0..Cardinality(UidStarts(c)) |->
        SubSeq(c,
               IF k = 0 THEN 1 ELSE LineEnd(c, NthOf(UidStarts(c), k)),
               IF k = Cardinality(UidStarts(c)) THEN Len(c)
               ELSE NthOf(UidStarts(c), k + 1))]

\* the file a run would save from `schedules` when the UUID draws are those of `seed`
SavedAgain(schedules, seed) == serialize(map(schedules, FreshUuids(Len(schedules), seed)))

\* C15: serializing the event list of a saved file once more gives the same
\* text, in whatever state of the page; mapping and serializing the records of
\* the run once more, under any other draw of identifiers, gives a text that
\* differs from the saved one in its unique-identifier lines at most.
C15_SerializationIsDeterministic ==
    Saved =>
        /\ serialize(run.events) = run.downloads[1].content
        /\ \A seed \in UuidSeeds :
            WithoutUidLines(SavedAgain(run.schedules, seed))
                = WithoutUidLines(run.downloads[1].content)

\* a saved file of two events whose identifiers another draw would not repeat
C15_Witness ==
    /\ Saved
    /\ Len(run.events) = 2
    /\ \E seed \in UuidSeeds :
        SavedAgain(run.schedules, seed) # run.downloads[1].content

\* the header sets the requests of the run carry
RequestHeaders == {reqs[i].headers : i \in 1..Len(reqs)}

\* C17: a run reads the week list and the credentials once, when it starts:
\* its requests are those of the week list and the headers of that moment,
\* they stay the same requests while the run waits, whatever the interceptor
\* captures meanwhile, and the result of the run is the result of these requests.
C17_RunKeepsWhatItReadAtStart ==
    [][/\ (pc = "idle" /\ pc' = "awaiting" /\ reqs' # <<>>) =>
            /\ cachedWeeks.kind = "array"
            /\ IsTermSelection(RequestedWeeks', cachedWeeks.items, cachedWeeks.items[1])
            /\ RequestHeaders' = {getAuthHeaders}
       /\ pc = "awaiting" =>
            /\ RequestedWeeks' = RequestedWeeks
            /\ RequestHeaders' = RequestHeaders
       /\ (pc = "awaiting" /\ pc' = "idle" /\ reqs # <<>>) =>
            (run.schedules = SucceededFrom(1))']_vars

\* the week list was replaced by one of another term while the run waited for
\* its second fetch
C17_Witness ==
    /\ pc = "awaiting"
    /\ RequestedWeeks = <<Week(1, 2025, 1), Week(1, 2025, 2)>>
    /\ reqs[1].outcome # Pending /\ reqs[2].outcome = Pending
    /\ cachedWeeks = JsonArray(<<Week(2, 2025, 1)>>)

\* no request of the run is waiting for its response
NonePending == \A i \in 1..Len(reqs) : reqs[i].outcome.kind # "pending"

\* C18: while a run is in flight the button is disabled, no second run starts
\* (the run and the outcomes it has received stay as they are until it ends),
\* and the run ends only by its own continuation, once every request settled.
C18_OneRunInFlight ==
    [][pc = "awaiting" =>
        /\ btn.disabled
        /\ pc' = "awaiting" =>
            /\ run' = run
            /\ Len(reqs') = Len(reqs)
            /\ \A i \in 1..Len(reqs) : reqs[i].outcome # Pending => reqs'[i] = reqs[i]
        /\ pc' = "idle" => NonePending /\ reqs' = reqs]_vars

\* a run in flight, its second fetch back and its first not, the button disabled
C18_Witness ==
    /\ pc = "awaiting"
    /\ btn.present /\ btn.disabled
    /\ Len(reqs) = 2
    /\ reqs[1].outcome = Pending /\ reqs[2].outcome = Records(<<ItemA>>)

\* C19: a run issues the requests of all selected weeks at once, before any
\* outcome is used, and produces no result (schedules, events, file, end of
\* the run) while one of them is pending.
C19_ResultOnlyAfterAllSettled ==
    /\ (run.agg = "pending" \/ reqs # <<>>) =>
            (run.outcome # "none" /\ cachedWeeks.kind = "array"
             /\ Len(reqs) = Len(termWeeksOf(cachedWeeks.items)))
    /\ (pc = "awaiting" /\ ~NonePending) =>
            /\ run.outcome = "running" /\ run.agg = "pending"
            /\ run.schedules = <<>> /\ ~run.mapped /\ run.downloads = <<>>
    /\ (run.outcome \notin {"none", "running"} \/ run.mapped \/ run.schedules # <<>>) =>
            NonePending /\ pc = "idle"

\* three requests issued, two of them settled, no result yet
C19_Witness ==
    /\ pc = "awaiting"
    /\ Len(reqs) = 3
    /\ reqs[1].outcome = Records(<<ItemA>>) /\ reqs[2].outcome = Pending
    /\ reqs[3].outcome = HttpError
    /\ run.outcome = "running" /\ run.schedules = <<>>

\* the notices of a run raised before its await: those of the schedule
\* service, since exportCurrentTerm itself raises none before it resumes
ServiceNotices == IF pc = "awaiting" THEN run.alerts ELSE <<>>

\* C20 as stated: the interceptor and the schedule service never alert the
\* user and never write to the console (only the export flow does).
C20_OnlyExportFlowReports ==
    /\ console = "none"
    /\ ServiceNotices = <<>>

\* the notices the export flow itself raises once it has resumed
FlowNotices == {<<>>, <<"nothing-to-export">>, <<"export-failed">>}

\* C20 amended: the schedule service raises the two precondition notices (at
\* most one per run, and then it issues no request); the interceptor writes
\* its capture and parse-failure lines to the console; the export flow raises
\* "nothing to export" and "export failed" and writes the error to the
\* console exactly when a step threw; mapping and serializing raise nothing,
\* and a failed fetch raises nothing and is never what the run failed by.
C20_WhoReportsWhat ==
    /\ console \in {"none", "log", "warn"}
    /\ ServiceNotices \in {<<>>, WeeksNotice, CredentialsNotice}
    /\ (ServiceNotices # <<>>) => reqs = <<>>
    /\ Finished =>
        /\ \E s \in {<<>>, WeeksNotice, CredentialsNotice}, f \in FlowNotices : run.alerts = s \o f
        /\ run.logged <=> run.thrownBy # ""
        /\ run.logged <=> (run.alerts # <<>> /\ run.alerts[Len(run.alerts)] = "export-failed")
        /\ run.outcome = "saved" => run.alerts = <<>>
        /\ reqs # <<>> => run.thrownBy \in {"", "mapping", "file-save"}
        /\ (reqs # <<>> /\ \A i \in 1..Len(reqs) : reqs[i].outcome \in Failures) =>
                run.alerts = <<"nothing-to-export">> /\ ~run.logged

\* the interceptor logged a capture; the run of the two captured weeks lost the
\* first to an HTTP error and saved the second without a notice
C20_Witness ==
    /\ console = "log"
    /\ Finished /\ run.outcome = "saved"
    /\ Len(reqs) = 2
    /\ reqs[1].outcome = HttpError /\ reqs[2].outcome = Records(<<ItemA>>)
    /\ run.alerts = <<>> /\ ~run.logged

\* C21: when every issued request eventually completes or fails, every run
\* that was started eventually ends with the button enabled and labelled
\* Export again, for every week list, capture state and mix of outcomes.
C21_RunEventuallyEnds ==
    (pc = "awaiting") ~> (pc = "idle" /\ ~btn.disabled /\ btn.textContent = ExportLabel)

\* a run whose two fetches both failed has ended and the button is usable again
C21_Witness ==
    /\ Finished
    /\ Len(reqs) = 2
    /\ reqs[1].outcome = NetworkError /\ reqs[2].outcome = NullData
    /\ btn.present /\ ~btn.disabled /\ btn.textContent = ExportLabel

====
